---- MODULE Spec2Model ----
(***************************************************************************)
(* The record store service of the investment ideas manager                *)
(* (app/investment_service.py over the table declared in app/models.py).   *)
(*                                                                         *)
(* The table is a function from the stored ids to rows.  Every service     *)
(* call is one action: it opens a session, reads and writes, commits and   *)
(* returns; the value it returns is kept in ret.  The clock behind         *)
(* datetime.utcnow() and date.today() never goes back, but two reads may   *)
(* return the same value (the resolution of the clock), so each read draws *)
(* a value at or after the previous one.  The order of rows that tie on    *)
(* the ORDER BY column is not fixed by the query, so a list query may      *)
(* return any of the orders that respect the sort key.                     *)
(***************************************************************************)
EXTENDS Integers, Sequences, FiniteSets, TLC

\* ---------------------------------------------------------------- bounds
\* ids the store hands out in one behaviour of Spec
MaxIdeas == 2
\* ids the store hands out in one behaviour of SpecList
MaxListIdeas == 3
\* largest clock reading
MaxClock == 2
\* optional fields one create payload sets explicitly
MaxCreateFields == 1
\* fields one update payload sets explicitly
MaxUpdateFields == 1
\* successful updates in one behaviour
MaxUpdates == 1
\* callers that run update at the same time
MaxCallers == 2
\* ids the store hands out in one behaviour of SpecConc
MaxConcIdeas == 1
\* ids the store hands out in one behaviour of SpecUI
MaxUiIdeas == 2

\* ------------------------------------------------------------- the data
None == "None"

InvestmentStatus == {"Researching", "Watchlist", "Invested", "Rejected"}

\* the fields of the Create and Update views
Fields == {"title", "description", "idea_date", "status", "notes"}

OptionalCreateFields == Fields \ {"title"}

\* values a caller supplies for a field
InputValues(f) ==
    CASE f = "title"       -> {"T1"}
      [] f = "description" -> {"D1"}
      [] f = "idea_date"   -> {"2024-01-15"}
      [] f = "status"      -> {"Watchlist"}
      [] f = "notes"       -> {"N1"}

\* date.today() at clock reading t
Today(t) == IF t < MaxClock THEN "day0" ELSE "day1"

\* the ids callers ask for in Spec: stored, deleted or not issued yet
Ids == 1..MaxIdeas

\* the ids callers ask for in SpecList
ListIds == 1..MaxListIdeas

\* a clock read at or after reading t
ClockReads(t) == t..MaxClock

\* the payloads: the fields a caller set explicitly, with their values
Payloads(required, optional, values, n) ==
    UNION { [ (required \cup S) -> values ]
            : S \in {T \in SUBSET optional : Cardinality(T) <= n} }

\* values a caller supplies for a field of an existing idea
NewValues(f) ==
    CASE f = "title"       -> {"T2"}
      [] f = "description" -> {"D2"}
      [] f = "idea_date"   -> {"2024-06-15"}
      [] f = "status"      -> {"Invested"}
      [] f = "notes"       -> {"N2"}

\* InvestmentIdeaCreate(...): title is required and a str, idea_date may be
\* None, the other fields are typed and not Optional
CreateInputs ==
    { d \in Payloads({"title"}, OptionalCreateFields,
                     UNION {InputValues(f) : f \in Fields} \cup {None},
                     MaxCreateFields) :
        \A f \in DOMAIN d :
            \/ d[f] \in InputValues(f)
            \/ f = "idea_date" /\ d[f] = None }

\* InvestmentIdeaUpdate(...): every field Optional, default None
UpdateInputs ==
    { d \in Payloads({}, Fields,
                     UNION {NewValues(f) : f \in Fields} \cup {None},
                     MaxUpdateFields) :
        \A f \in DOMAIN d : d[f] \in NewValues(f) \cup {None} }

\* max_length of the title, description and notes fields
TitleMaxLength == 200
DescriptionMaxLength == 2000
NotesMaxLength == 5000

MaxLength(f) ==
    CASE f = "title"       -> TitleMaxLength
      [] f = "description" -> DescriptionMaxLength
      [] f = "notes"       -> NotesMaxLength

\* len(v): the number of characters of the text the value v stands for; the
\* long texts are written by their length, "T200" is a title of 200 characters
CharLen(v) ==
    CASE v = "T200"  -> 200
      [] v = "T201"  -> 201
      [] v = "D2000" -> 2000
      [] v = "D2001" -> 2001
      [] v = "N5000" -> 5000
      [] v = "N5001" -> 5001
      [] OTHER       -> Len(v)

\* the year, month and day a text of the form YYYY-MM-DD names
DateParts(v) ==
    CASE v = "2024-01-15" -> <<2024, 1, 15>>
      [] v = "2024-06-15" -> <<2024, 6, 15>>
      [] v = "2024-02-29" -> <<2024, 2, 29>>
      [] v = "2023-02-29" -> <<2023, 2, 29>>
      [] v = "2024-13-45" -> <<2024, 13, 45>>
      [] OTHER            -> <<0, 0, 0>>

DaysInMonth(y, m) ==
    IF m = 2
    THEN IF (y % 4 = 0 /\ y % 100 # 0) \/ y % 400 = 0 THEN 29 ELSE 28
    ELSE IF m \in {4, 6, 9, 11} THEN 30 ELSE 31

\* the text parses as a date
IsDate(v) ==
    LET p == DateParts(v)
    IN  /\ p[1] \in 1..9999
        /\ p[2] \in 1..12
        /\ p[3] \in 1..DaysInMonth(p[1], p[2])

\* the validation of a field that checks no length
ValidFieldNoMaxLength(f, v) ==
    CASE f \in {"title", "description", "notes"} -> v # None
      [] f = "status"    -> v \in InvestmentStatus
      [] f = "idea_date" -> IsDate(v)

\* the validation of one field of a view: str with max_length,
\* InvestmentStatus, date
ValidField(f, v) ==
    CASE f \in {"title", "description", "notes"} ->
            v # None /\ CharLen(v) <= MaxLength(f)
      [] f = "status"    -> v \in InvestmentStatus
      [] f = "idea_date" -> IsDate(v)

\* InvestmentIdeaCreate(**d) validates: title required, idea_date Optional
ValidInvestmentIdeaCreate(d) ==
    /\ "title" \in DOMAIN d
    /\ \A f \in DOMAIN d :
          \/ f = "idea_date" /\ d[f] = None
          \/ ValidField(f, d[f])

\* InvestmentIdeaUpdate(**d) validates: every field Optional
ValidInvestmentIdeaUpdate(d) ==
    \A f \in DOMAIN d : d[f] = None \/ ValidField(f, d[f])

\* what a caller may type into a field: texts at and one over the maximal
\* length, dates that exist and that do not, a status and a word that is none
RawValues(f) ==
    CASE f = "title"       -> {"T200", "T201"}
      [] f = "description" -> {"D2000", "D2001"}
      [] f = "idea_date"   -> {"2024-02-29", "2023-02-29", "2024-13-45"}
      [] f = "status"      -> {"Rejected", "Pending"}
      [] f = "notes"       -> {"N5000", "N5001"}

\* the keyword arguments of InvestmentIdeaCreate(...): a title alone, or the
\* title T1 and one more field
RawCreateInputs ==
    { d \in Payloads({"title"}, OptionalCreateFields,
                     UNION {RawValues(f) : f \in Fields} \cup {"T1"}, 1) :
        /\ \A f \in DOMAIN d \ {"title"} : d[f] \in RawValues(f)
        /\ d["title"] \in RawValues("title") \cup {"T1"}
        /\ DOMAIN d # {"title"} => d["title"] = "T1" }

\* the keyword arguments of InvestmentIdeaUpdate(...): one field or none
RawUpdateInputs ==
    { d \in Payloads({}, Fields, UNION {RawValues(f) : f \in Fields}, 1) :
        \A f \in DOMAIN d : d[f] \in RawValues(f) }

\* the Create view with Watchlist as the default status
InvestmentIdeaCreateDefaultWatchlist(d) ==
    [f \in Fields |->
        IF f \in DOMAIN d THEN d[f]
        ELSE CASE f = "description" -> ""
               [] f = "idea_date"   -> None
               [] f = "status"      -> "Watchlist"
               [] f = "notes"       -> ""
               [] OTHER             -> None]

\* the Create view with its defaults filled in
InvestmentIdeaCreate(d) ==
    [f \in Fields |->
        IF f \in DOMAIN d THEN d[f]
        ELSE CASE f = "description" -> ""
               [] f = "idea_date"   -> None
               [] f = "status"      -> "Researching"
               [] f = "notes"       -> ""
               [] OTHER             -> None]

\* update_data.model_dump(exclude_unset=True): the explicitly set fields,
\* those set to None included
ModelDumpExcludeUnset(d) == d

\* InvestmentIdea with the two timestamps taken for each other
InvestmentIdeaStampsSwapped(v, c, u) ==
    [id |-> 0, title |-> v["title"], description |-> v["description"],
     idea_date |-> v["idea_date"], status |-> v["status"], notes |-> v["notes"],
     created_at |-> u, updated_at |-> c]

\* InvestmentIdea(...) as create_investment_idea builds it: no id yet, and
\* created_at and updated_at each from its own default_factory call
InvestmentIdea(v, c, u) ==
    [id |-> 0, title |-> v["title"], description |-> v["description"],
     idea_date |-> v["idea_date"], status |-> v["status"], notes |-> v["notes"],
     created_at |-> c, updated_at |-> u]

\* NotNull with a nullable status column
NotNullExceptStatus(r) == \A f \in Fields \ {"status"} : r[f] # None

\* the columns are declared with non-Optional types: NOT NULL
NotNull(r) == \A f \in Fields : r[f] # None

NoRow == [id |-> 0, title |-> None, description |-> None, idea_date |-> None,
          status |-> None, notes |-> None, created_at |-> 0, updated_at |-> 0]

\* ------------------------------------------------------------ the state
\* rows:     the table investment_ideas, stored id -> row
\* nextId:   the next value of the id sequence of the table
\* now:      the last reading of the clock
\* ret:      the last call and what it returned
\* issued:   the ids creates have returned so far           (history)
\* deleted:  the ids of the rows deleted so far             (history)
\* nUpdates: the number of updates committed so far         (history)
\* fresh:    id -> the entity create returned for it, for the ids no update
\*           and no delete has touched since                (history)
\* sess:     caller -> the session of its update call in progress
\* ui:       the ideas page of one client: what it shows, its open dialog
VARIABLES rows, nextId, now, ret, issued, deleted, nUpdates, fresh, sess, ui

vars == <<rows, nextId, now, ret, issued, deleted, nUpdates, fresh, sess, ui>>

\* the callers of concurrent updates
Callers == 1..MaxCallers

\* a caller outside any call
NoSession ==
    [pc |-> "idle", id |-> 0, d |-> <<>>, idea |-> NoRow, read |-> 0, seq |-> 0]

\* no notification
NoNotice == [type |-> "none", text |-> ""]

\* the client before it opens the page
NoPage ==
    [event |-> "none", filter |-> "All",
     page_label |-> -1, page_cards |-> <<>>,
     container_label |-> -1, container_cards |-> <<>>,
     dialog |-> "none", dialog_idea |-> NoRow, notice |-> NoNotice]

\* a call and its outcome: kind is "entity", "none", "true", "false", "list"
\* or "raise" (the call raised instead of returning)
Ret(op, kind, entity, list) ==
    [op |-> op, kind |-> kind, entity |-> entity, list |-> list]

Init ==
    /\ rows = <<>>
    /\ nextId = 1
    /\ now = 0
    /\ ret = Ret("init", "none", NoRow, <<>>)
    /\ issued = {}
    /\ deleted = {}
    /\ nUpdates = 0
    /\ fresh = <<>>
    /\ sess = [c \in Callers |-> NoSession]
    /\ ui = NoPage

\* an id one above the largest stored id, as a table without a sequence does
AllocIdAboveLargestStored ==
    IF DOMAIN rows = {} THEN 1
    ELSE (CHOOSE m \in DOMAIN rows : \A j \in DOMAIN rows : j <= m) + 1

\* the id the store assigns to an inserted row that has none: the next value
\* of a sequence, never handed out before
AllocId == nextId

\* session.add(idea); session.commit(): the insert gives the row its id
Insert(idea) == [idea EXCEPT !.id = IF idea.id = 0 THEN AllocId ELSE idea.id]

\* ApplyUpdate that resets the texts the payload leaves out to empty
ApplyUpdateResetOmitted(idea, d, t) ==
    [k \in DOMAIN idea |->
        IF k \in DOMAIN d THEN d[k]
        ELSE IF k = "updated_at" THEN t
        ELSE IF k \in {"description", "notes"} THEN ""
        ELSE idea[k]]

\* ApplyUpdate that refreshes updated_at only when a field changes
ApplyUpdateRefreshIfChanged(idea, d, t) ==
    [k \in DOMAIN idea |->
        IF k \in DOMAIN d THEN d[k]
        ELSE IF k = "updated_at" /\ (\E f \in DOMAIN d : d[f] # idea[f]) THEN t
        ELSE idea[k]]

\* for field, value in ...items(): setattr(idea, field, value), then
\* idea.updated_at = datetime.utcnow()
ApplyUpdate(idea, d, t) ==
    [k \in DOMAIN idea |->
        IF k \in DOMAIN d THEN d[k]
        ELSE IF k = "updated_at" THEN t
        ELSE idea[k]]

\* the orders of a query that sorts ascending
OrderByCreatedAtAsc(S) ==
    { l \in [1..Cardinality(S) -> S] :
        /\ \A a, b \in DOMAIN l : a # b => l[a] # l[b]
        /\ \A a, b \in DOMAIN l : a < b => l[a].created_at <= l[b].created_at }

\* the orders a query with ORDER BY created_at DESC may return the rows S in
OrderByCreatedAtDesc(S) ==
    { l \in [1..Cardinality(S) -> S] :
        /\ \A a, b \in DOMAIN l : a # b => l[a] # l[b]
        /\ \A a, b \in DOMAIN l : a < b => l[a].created_at >= l[b].created_at }

Table == {rows[i] : i \in DOMAIN rows}

\* ------------------------------------------------------- the operations
create_investment_idea(d) ==
    \E t0 \in ClockReads(now) : \E t1 \in ClockReads(t0) : \E t2 \in ClockReads(t1) :
        LET data == InvestmentIdeaCreate(d)
            dated == IF data["idea_date"] = None
                     THEN [data EXCEPT !["idea_date"] = Today(t0)]
                     ELSE data
            stored == Insert(InvestmentIdea(dated, t1, t2))
        IN  /\ rows' = [i \in DOMAIN rows \cup {stored.id} |->
                            IF i = stored.id THEN stored ELSE rows[i]]
            /\ nextId' = nextId + 1
            /\ now' = t2
            /\ ret' = Ret("create", "entity", stored, <<>>)
            /\ issued' = issued \cup {stored.id}
            /\ UNCHANGED <<deleted, nUpdates>>

get_all_investment_ideas ==
    /\ \E l \in OrderByCreatedAtDesc(Table) :
            ret' = Ret("get_all", "list", NoRow, l)
    /\ UNCHANGED <<rows, nextId, now, issued, deleted, nUpdates>>

\* get_by_id that selects the first row of the table, whatever the id
get_investment_idea_by_id_first_row(i) ==
    /\ ret' = IF i \in DOMAIN rows
              THEN Ret("get_by_id", "entity",
                       rows[CHOOSE j \in DOMAIN rows : \A k \in DOMAIN rows : j <= k],
                       <<>>)
              ELSE Ret("get_by_id", "none", NoRow, <<>>)
    /\ UNCHANGED <<rows, nextId, now, issued, deleted, nUpdates>>

get_investment_idea_by_id(i) ==
    /\ ret' = IF i \in DOMAIN rows
              THEN Ret("get_by_id", "entity", rows[i], <<>>)
              ELSE Ret("get_by_id", "none", NoRow, <<>>)
    /\ UNCHANGED <<rows, nextId, now, issued, deleted, nUpdates>>

update_investment_idea(i, d) ==
    IF i \notin DOMAIN rows
    THEN /\ ret' = Ret("update", "none", NoRow, <<>>)
         /\ UNCHANGED <<rows, nextId, now, issued, deleted, nUpdates>>
    ELSE \E t \in ClockReads(now) :
            LET idea == ApplyUpdate(rows[i], ModelDumpExcludeUnset(d), t)
            IN  /\ now' = t
                /\ IF NotNull(idea)
                   THEN /\ rows' = [rows EXCEPT ![i] = idea]
                        /\ ret' = Ret("update", "entity", idea, <<>>)
                        /\ nUpdates' = nUpdates + 1
                   ELSE /\ rows' = rows
                        /\ ret' = Ret("update", "raise", NoRow, <<>>)
                        /\ nUpdates' = nUpdates
                /\ UNCHANGED <<nextId, issued, deleted>>

\* delete that reports success for an id that is not stored
delete_investment_idea_always_true(i) ==
    IF i \notin DOMAIN rows
    THEN /\ ret' = Ret("delete", "true", NoRow, <<>>)
         /\ UNCHANGED <<rows, nextId, now, issued, deleted, nUpdates>>
    ELSE /\ rows' = [j \in DOMAIN rows \ {i} |-> rows[j]]
         /\ ret' = Ret("delete", "true", NoRow, <<>>)
         /\ deleted' = deleted \cup {i}
         /\ UNCHANGED <<nextId, now, issued, nUpdates>>

\* delete that returns True without committing the removal
delete_investment_idea_no_commit(i) ==
    IF i \notin DOMAIN rows
    THEN /\ ret' = Ret("delete", "false", NoRow, <<>>)
         /\ UNCHANGED <<rows, nextId, now, issued, deleted, nUpdates>>
    ELSE /\ ret' = Ret("delete", "true", NoRow, <<>>)
         /\ deleted' = deleted \cup {i}
         /\ UNCHANGED <<rows, nextId, now, issued, nUpdates>>

delete_investment_idea(i) ==
    IF i \notin DOMAIN rows
    THEN /\ ret' = Ret("delete", "false", NoRow, <<>>)
         /\ UNCHANGED <<rows, nextId, now, issued, deleted, nUpdates>>
    ELSE /\ rows' = [j \in DOMAIN rows \ {i} |-> rows[j]]
         /\ ret' = Ret("delete", "true", NoRow, <<>>)
         /\ deleted' = deleted \cup {i}
         /\ UNCHANGED <<nextId, now, issued, nUpdates>>

\* get_ideas_by_status without its where clause
get_ideas_by_status_unfiltered(s) ==
    /\ \E l \in OrderByCreatedAtDesc(Table) :
            ret' = Ret("get_by_status", "list", NoRow, l)
    /\ UNCHANGED <<rows, nextId, now, issued, deleted, nUpdates>>

get_ideas_by_status(s) ==
    /\ \E l \in OrderByCreatedAtDesc({r \in Table : r.status = s}) :
            ret' = Ret("get_by_status", "list", NoRow, l)
    /\ UNCHANGED <<rows, nextId, now, issued, deleted, nUpdates>>

\* update_investment_idea up to session.get: the caller c opens a session and
\* loads the row; without a row the call returns None.  read is the number of
\* updates committed before the load.
update_read(c, i, d) ==
    /\ sess[c].pc = "idle"
    /\ IF i \notin DOMAIN rows
       THEN /\ ret' = Ret("update", "none", NoRow, <<>>)
            /\ sess' = [sess EXCEPT ![c] = [NoSession EXCEPT !.pc = "none", !.id = i]]
       ELSE /\ ret' = ret
            /\ sess' = [sess EXCEPT ![c] =
                            [pc |-> "loaded", id |-> i, d |-> d, idea |-> rows[i],
                             read |-> nUpdates, seq |-> 0]]
    /\ UNCHANGED <<rows, nextId, now, issued, deleted, nUpdates>>

\* the rest of update_investment_idea: the setattr loop and updated_at on the
\* loaded object, then the commit and the refresh.  The flush writes the
\* columns whose value differs from the loaded one, in one UPDATE of the row
\* with that id; the refresh reads the row back.
update_commit(c) ==
    /\ sess[c].pc = "loaded"
    /\ \E t \in ClockReads(now) :
          LET s == sess[c]
              idea == ApplyUpdate(s.idea, ModelDumpExcludeUnset(s.d), t)
              changed == {k \in DOMAIN idea : idea[k] # s.idea[k]}
          IN  /\ now' = t
              /\ IF NotNull(idea) /\ s.id \in DOMAIN rows
                 THEN /\ rows' = [rows EXCEPT ![s.id] =
                                    [k \in DOMAIN idea |->
                                        IF k \in changed THEN idea[k]
                                        ELSE rows[s.id][k]]]
                      /\ ret' = Ret("update", "entity", rows'[s.id], <<>>)
                      /\ nUpdates' = nUpdates + 1
                      /\ sess' = [sess EXCEPT ![c].pc = "done",
                                              ![c].seq = nUpdates + 1]
                 ELSE /\ rows' = rows
                      /\ ret' = Ret("update", "raise", NoRow, <<>>)
                      /\ nUpdates' = nUpdates
                      /\ sess' = [sess EXCEPT ![c].pc = "raised"]
    /\ UNCHANGED <<nextId, issued, deleted>>

\* the caller builds the Create view from what was typed, which validates it,
\* and calls the service with the view; a ValidationError ends the call first
create_from_input(d) ==
    IF ValidInvestmentIdeaCreate(d)
    THEN create_investment_idea(d)
    ELSE /\ ret' = Ret("create", "invalid", NoRow, <<>>)
         /\ UNCHANGED <<rows, nextId, now, issued, deleted, nUpdates>>

\* the same for the Update view
update_from_input(i, d) ==
    IF ValidInvestmentIdeaUpdate(d)
    THEN update_investment_idea(i, d)
    ELSE /\ ret' = Ret("update", "invalid", NoRow, <<>>)
         /\ UNCHANGED <<rows, nextId, now, issued, deleted, nUpdates>>

\* ------------------------------------------------------------- the page
store == <<rows, nextId, now, ret, issued, deleted, nUpdates>>

\* ui.notify(text, type=...)
Notify(type, text) == [type |-> type, text |-> text]

\* the ideas the table holds after the step
TableAfter == {rows'[i] : i \in DOMAIN rows'}

\* create_ideas_list as the page function runs it: the filter select on
\* "All", the empty ideas_container, and then, next to the container and not
\* in it, the count label and one card for each idea of the list l.  event
\* names the handler that ran last, notice is what that handler notified.
RenderPage(event, l, notice) ==
    [event |-> event, filter |-> "All",
     page_label |-> Len(l), page_cards |-> l,
     container_label |-> -1, container_cards |-> <<>>,
     dialog |-> "none", dialog_idea |-> NoRow, notice |-> notice]

\* ui.navigate.reload() at the end of a handler: the page function runs
\* again on the store the handler leaves
Reload(event, notice) ==
    \E l \in OrderByCreatedAtDesc(TableAfter) : ui' = RenderPage(event, l, notice)

\* the cards the page shows, from top to bottom: ideas_container comes
\* before the elements drawn after it
ShownCards(u) == u.container_cards \o u.page_cards

\* the count labels the page shows
ShownLabels(u) == {u.container_label, u.page_label} \ {-1}

\* the client opens the page
investment_ideas_page ==
    /\ ui.dialog = "none"
    /\ get_all_investment_ideas
    /\ ui' = RenderPage("load", ret'.list, NoNotice)

\* what the create form holds when Save Idea is clicked
FormInputs ==
    { [title |-> x, description |-> "", idea_date |-> "2024-01-15",
       status |-> st, notes |-> ""]
      : x \in {"", "T1"}, st \in {"Researching", "Watchlist"} }

save_idea(d) ==
    /\ ui.event # "none" /\ ui.dialog = "none"
    /\ IF d["title"] = ""
       THEN /\ ui' = [ui EXCEPT !.event = "save_idea",
                        !.notice = Notify("negative", "Please enter a title for the investment idea")]
            /\ UNCHANGED store
       ELSE /\ create_investment_idea(d)
            /\ Reload("save_idea", Notify("positive", "Investment idea saved successfully!"))

\* the options of the filter select
FilterOptions == {"All"} \cup InvestmentStatus

\* apply_filter: the ideas of the selected filter replace the content of
\* ideas_container
apply_filter(f) ==
    /\ ui.event # "none" /\ ui.dialog = "none"
    /\ f # ui.filter
    /\ IF f = "All" THEN get_all_investment_ideas ELSE get_ideas_by_status(f)
    /\ ui' = [ui EXCEPT !.event = "filter", !.filter = f, !.notice = NoNotice,
                        !.container_label = Len(ret'.list),
                        !.container_cards = ret'.list]

\* the ids of the cards on the page: each card has an Edit and a Delete button
CardIds == {ShownCards(ui)[k].id : k \in DOMAIN ShownCards(ui)}

show_edit_dialog(i) ==
    /\ ui.dialog = "none"
    /\ get_investment_idea_by_id(i)
    /\ ui' = IF ret'.kind = "none"
             THEN [ui EXCEPT !.event = "show_edit_dialog",
                             !.notice = Notify("negative", "Investment idea not found")]
             ELSE [ui EXCEPT !.event = "show_edit_dialog", !.notice = NoNotice,
                             !.dialog = "edit", !.dialog_idea = ret'.entity]

show_delete_dialog(i) ==
    /\ ui.dialog = "none"
    /\ get_investment_idea_by_id(i)
    /\ ui' = IF ret'.kind = "none"
             THEN [ui EXCEPT !.event = "show_delete_dialog",
                             !.notice = Notify("negative", "Investment idea not found")]
             ELSE [ui EXCEPT !.event = "show_delete_dialog", !.notice = NoNotice,
                             !.dialog = "delete", !.dialog_idea = ret'.entity]

\* what the edit dialog holds when Save Changes is clicked: the values of the
\* idea it was opened on, with the title or the status maybe changed
EditInputs(idea) ==
    { [title |-> x, description |-> idea.description, idea_date |-> idea.idea_date,
       status |-> st, notes |-> idea.notes]
      : x \in {"", "T2", idea.title}, st \in {"Invested", idea.status} }

\* save_changes that takes every outcome of the update for a success
save_changes_result_unchecked(d) ==
    /\ ui.dialog = "edit"
    /\ IF d["title"] = ""
       THEN /\ ui' = [ui EXCEPT !.event = "save_changes",
                        !.notice = Notify("negative", "Please enter a title")]
            /\ UNCHANGED store
       ELSE /\ update_investment_idea(ui.dialog_idea.id, d)
            /\ Reload("save_changes",
                      Notify("positive", "Investment idea updated successfully!"))

save_changes(d) ==
    /\ ui.dialog = "edit"
    /\ IF d["title"] = ""
       THEN /\ ui' = [ui EXCEPT !.event = "save_changes",
                        !.notice = Notify("negative", "Please enter a title")]
            /\ UNCHANGED store
       ELSE /\ update_investment_idea(ui.dialog_idea.id, d)
            /\ CASE ret'.kind = "entity" ->
                        Reload("save_changes",
                               Notify("positive", "Investment idea updated successfully!"))
                 [] ret'.kind = "none" ->
                        ui' = [ui EXCEPT !.event = "save_changes",
                                 !.notice = Notify("negative", "Failed to update investment idea")]
                 [] OTHER ->
                        ui' = [ui EXCEPT !.event = "save_changes",
                                 !.notice = Notify("negative", "Error updating idea")]

confirm_delete ==
    /\ ui.dialog = "delete"
    /\ delete_investment_idea(ui.dialog_idea.id)
    /\ IF ret'.kind = "true"
       THEN Reload("confirm_delete",
                   Notify("warning", "Investment idea deleted successfully"))
       ELSE ui' = [ui EXCEPT !.event = "confirm_delete",
                     !.notice = Notify("negative", "Failed to delete investment idea")]

\* the Cancel button of a dialog: dialog.close
cancel ==
    /\ ui.dialog # "none"
    /\ ui' = [ui EXCEPT !.event = "cancel", !.notice = NoNotice,
                        !.dialog = "none", !.dialog_idea = NoRow]
    /\ UNCHANGED store

\* ---------------------------------------------------- the specifications
\* Spec: the calls that work on one id, with all the fields in the payloads
Create ==
    /\ nextId <= MaxIdeas /\ \E d \in CreateInputs : create_investment_idea(d)
    /\ UNCHANGED <<fresh, sess, ui>>
GetById ==
    /\ \E i \in Ids : get_investment_idea_by_id(i)
    /\ UNCHANGED <<fresh, sess, ui>>
Update ==
    /\ \E i \in Ids : \E d \in UpdateInputs :
          update_investment_idea(i, d) /\ nUpdates' <= MaxUpdates
    /\ UNCHANGED <<fresh, sess, ui>>
Delete ==
    /\ \E i \in Ids : delete_investment_idea(i)
    /\ UNCHANGED <<fresh, sess, ui>>

Next == Create \/ GetById \/ Update \/ Delete

Spec == Init /\ [][Next]_vars

\* SpecList: every call of the service on more rows, with payloads that set
\* the title and the status only
ListCreateInputs == {d \in CreateInputs : DOMAIN d \subseteq {"title", "status"}}
ListUpdateInputs == {d \in UpdateInputs : DOMAIN d \subseteq {"status"}}

CreateL ==
    /\ nextId <= MaxListIdeas /\ \E d \in ListCreateInputs : create_investment_idea(d)
    /\ UNCHANGED <<fresh, sess, ui>>
UpdateL ==
    /\ \E i \in ListIds : \E d \in ListUpdateInputs :
          update_investment_idea(i, d) /\ nUpdates' <= MaxUpdates
    /\ UNCHANGED <<fresh, sess, ui>>
DeleteL ==
    /\ \E i \in ListIds : delete_investment_idea(i)
    /\ UNCHANGED <<fresh, sess, ui>>
GetByIdL ==
    /\ \E i \in ListIds : get_investment_idea_by_id(i)
    /\ UNCHANGED <<fresh, sess, ui>>
GetAll == get_all_investment_ideas /\ UNCHANGED <<fresh, sess, ui>>
GetByStatus ==
    /\ \E s \in InvestmentStatus : get_ideas_by_status(s)
    /\ UNCHANGED <<fresh, sess, ui>>

NextList == CreateL \/ GetAll \/ GetByIdL \/ UpdateL \/ DeleteL \/ GetByStatus

SpecList == Init /\ [][NextList]_vars

\* SpecValid: creates and updates from what callers type, valid or not
CreateV ==
    /\ nextId <= MaxIdeas /\ \E d \in RawCreateInputs : create_from_input(d)
    /\ UNCHANGED <<fresh, sess, ui>>
UpdateV ==
    /\ \E i \in Ids : \E d \in RawUpdateInputs :
          update_from_input(i, d) /\ nUpdates' <= MaxUpdates
    /\ UNCHANGED <<fresh, sess, ui>>

NextValid == CreateV \/ UpdateV

SpecValid == Init /\ [][NextValid]_vars

\* SpecRound: the calls of Spec, with creates of texts of maximal length, and
\* with the entity each create returned kept until its id is updated or deleted
RoundCreateInputs ==
    { [title |-> "T1"],
      [title |-> "T200", description |-> "D2000", notes |-> "N5000"] }

\* fresh without the id i
Touched(i) == [j \in DOMAIN fresh \ {i} |-> fresh[j]]

CreateR ==
    /\ nextId <= MaxIdeas /\ \E d \in RoundCreateInputs : create_investment_idea(d)
    /\ fresh' = [j \in DOMAIN fresh \cup {ret'.entity.id} |->
                    IF j = ret'.entity.id THEN ret'.entity ELSE fresh[j]]
    /\ UNCHANGED <<sess, ui>>
GetByIdR ==
    /\ \E i \in Ids : get_investment_idea_by_id(i)
    /\ UNCHANGED <<fresh, sess, ui>>
UpdateR ==
    /\ \E i \in Ids : \E d \in UpdateInputs :
          /\ update_investment_idea(i, d) /\ nUpdates' <= MaxUpdates
          /\ fresh' = IF ret'.kind = "entity" THEN Touched(i) ELSE fresh
    /\ UNCHANGED <<sess, ui>>
DeleteR ==
    /\ \E i \in Ids :
          /\ delete_investment_idea(i)
          /\ fresh' = IF ret'.kind = "true" THEN Touched(i) ELSE fresh
    /\ UNCHANGED <<sess, ui>>

NextRound == CreateR \/ GetByIdR \/ UpdateR \/ DeleteR

SpecRound == Init /\ [][NextRound]_vars

\* SpecConc: callers whose update calls overlap, each call in two steps
ConcCreateInputs == {[title |-> "T1"]}

\* payloads that set the title, the status or both, to the value a new idea
\* has or to another one
ConcValues(f) ==
    CASE f = "title"  -> {"T1", "T2"}
      [] f = "status" -> {"Researching", "Invested"}

ConcUpdateInputs ==
    { d \in Payloads({}, {"title", "status"},
                     ConcValues("title") \cup ConcValues("status"), 2) :
        /\ DOMAIN d # {}
        /\ \A f \in DOMAIN d : d[f] \in ConcValues(f) }

ConcIds == 1..MaxConcIdeas

CreateC ==
    /\ nextId <= MaxConcIdeas /\ \E d \in ConcCreateInputs : create_investment_idea(d)
    /\ UNCHANGED <<fresh, sess, ui>>
UpdateRead ==
    /\ \E c \in Callers : \E i \in ConcIds : \E d \in ConcUpdateInputs :
          update_read(c, i, d)
    /\ UNCHANGED <<fresh, ui>>
UpdateCommit ==
    /\ \E c \in Callers : update_commit(c)
    /\ UNCHANGED <<fresh, ui>>

NextConc == CreateC \/ UpdateRead \/ UpdateCommit

SpecConc == Init /\ [][NextConc]_vars

\* SpecUI: one client on the ideas page, and the deletes of another client
UiIds == 1..MaxUiIdeas

PageLoad == investment_ideas_page /\ UNCHANGED <<fresh, sess>>
SaveIdea ==
    /\ nextId <= MaxUiIdeas /\ \E d \in FormInputs : save_idea(d)
    /\ UNCHANGED <<fresh, sess>>
ApplyFilter ==
    /\ \E f \in FilterOptions : apply_filter(f)
    /\ UNCHANGED <<fresh, sess>>
ShowEditDialog ==
    /\ \E i \in CardIds : show_edit_dialog(i)
    /\ UNCHANGED <<fresh, sess>>
ShowDeleteDialog ==
    /\ \E i \in CardIds : show_delete_dialog(i)
    /\ UNCHANGED <<fresh, sess>>
SaveChanges ==
    /\ \E d \in EditInputs(ui.dialog_idea) : save_changes(d) /\ nUpdates' <= MaxUpdates
    /\ UNCHANGED <<fresh, sess>>
ConfirmDelete == confirm_delete /\ UNCHANGED <<fresh, sess>>
Cancel == cancel /\ UNCHANGED <<fresh, sess>>
\* another client confirms the delete of an idea
OtherClientDelete ==
    /\ \E i \in UiIds : i \in DOMAIN rows /\ delete_investment_idea(i)
    /\ UNCHANGED <<fresh, sess, ui>>

NextUI ==
    \/ PageLoad \/ SaveIdea \/ ApplyFilter \/ ShowEditDialog \/ ShowDeleteDialog
    \/ SaveChanges \/ ConfirmDelete \/ Cancel \/ OtherClientDelete

SpecUI == Init /\ [][NextUI]_vars

\* ------------------------------------------------------------ the claims
AllIds == Ids \cup ListIds

\* the step is a call of op: every call leaves its name in ret
IsCall(op) == ret'.op = op

\* the position of row r in the list l
Pos(l, r) == CHOOSE k \in DOMAIN l : l[k] = r

\* the list l holds exactly the rows of S, each once
ListsExactly(l, S) ==
    /\ Len(l) = Cardinality(S)
    /\ {l[k] : k \in DOMAIN l} = S

SortedByCreatedAtDesc(l) ==
    \A a, b \in DOMAIN l : a < b => l[a].created_at >= l[b].created_at

\* C1: a successful update changes, on the row with that id, only the fields
\* its payload sets and updated_at: every omitted field, id and created_at
\* keep their values, and every other row is unchanged.
C1_UpdateChangesOnlySuppliedFields ==
    [][(IsCall("update") /\ ret'.kind = "entity") =>
         \A d \in UpdateInputs : \A i \in AllIds :
            update_investment_idea(i, d) =>
                /\ DOMAIN rows' = DOMAIN rows
                /\ \A j \in DOMAIN rows \ {i} : rows'[j] = rows[j]
                /\ \A k \in (Fields \ DOMAIN d) \cup {"id", "created_at"} :
                        rows'[i][k] = rows[i][k]
                /\ \A k \in DOMAIN d : rows'[i][k] = d[k]
                /\ ret'.entity = rows'[i]]_vars

\* an update that set the title has kept the description given at creation,
\* with another row in the table
C1_Witness ==
    /\ ret.op = "update" /\ ret.kind = "entity"
    /\ ret.entity.title = "T2" /\ ret.entity.description = "D1"
    /\ Cardinality(DOMAIN rows) = MaxIdeas
    /\ rows[ret.entity.id] = ret.entity

\* C2: in an update payload None means "leave unchanged", whether the field
\* was omitted or passed as None: the update of a stored id is carried out,
\* every field that is absent or None keeps its stored value, which is never
\* None, and the fields with a value take it.
C2_NoneLeavesFieldUnchanged ==
    [][IsCall("update") =>
         \A d \in UpdateInputs : \A i \in DOMAIN rows :
            update_investment_idea(i, d) =>
                /\ ret'.kind = "entity"
                /\ \A k \in Fields :
                     IF k \in DOMAIN d /\ d[k] # None
                     THEN rows'[i][k] = d[k]
                     ELSE rows'[i][k] = rows[i][k] /\ rows'[i][k] # None]_vars

\* C3: for an id that is not stored, get_by_id and update return None and
\* delete returns False, none raises, and the table is unchanged.
C3_MissingIdIsNotFoundAndNoEffect ==
    [][\A i \in AllIds \ DOMAIN rows :
            /\ (IsCall("get_by_id") /\ get_investment_idea_by_id(i)) =>
                    (ret'.kind = "none" /\ rows' = rows)
            /\ IsCall("update") =>
                    \A d \in UpdateInputs :
                        update_investment_idea(i, d) =>
                            (ret'.kind = "none" /\ rows' = rows)
            /\ (IsCall("delete") /\ delete_investment_idea(i)) =>
                    (ret'.kind = "false" /\ rows' = rows)]_vars

\* an update of an id that was deleted found nothing, with a row in the table
C3_Witness ==
    /\ ret.op = "update" /\ ret.kind = "none"
    /\ DOMAIN rows # {} /\ deleted # {}

\* C4: delete of a stored id returns True and removes exactly that row, the
\* other rows are unchanged, and from then on, whatever calls follow, the id
\* is not stored, get_by_id of it returns None and get_all does not list it.
C4_DeleteIsPermanent ==
    [][/\ IsCall("delete") =>
            \A i \in DOMAIN rows :
                delete_investment_idea(i) =>
                    /\ ret'.kind = "true"
                    /\ DOMAIN rows' = DOMAIN rows \ {i}
                    /\ \A j \in DOMAIN rows' : rows'[j] = rows[j]
                    /\ i \in deleted'
       /\ IsCall("get_by_id") =>
            \A i \in deleted :
                get_investment_idea_by_id(i) => ret'.kind = "none"
       /\ \A i \in deleted' :
            /\ i \notin DOMAIN rows'
            /\ IsCall("get_all") =>
                    \A k \in DOMAIN ret'.list : ret'.list[k].id # i]_vars

\* get_by_id of a deleted id found nothing after a later create
C4_Witness ==
    /\ ret.op = "get_by_id" /\ ret.kind = "none"
    /\ \E i \in deleted : \E j \in DOMAIN rows : j > i

\* C5: the id a create returns differs from every id an earlier create
\* returned, those of deleted rows included, and no two stored rows share an
\* id.
C5_IdsNeverReused ==
    [][/\ IsCall("create") =>
            \A d \in CreateInputs :
                create_investment_idea(d) =>
                    /\ ret'.entity.id \notin issued
                    /\ ret'.entity.id \in DOMAIN rows'
                    /\ \A j \in DOMAIN rows :
                            j \in DOMAIN rows' /\ rows'[j] = rows[j]
       /\ \A i \in DOMAIN rows' : rows'[i].id = i]_vars

\* a create after a deletion returned a fresh id
C5_Witness ==
    /\ ret.op = "create" /\ deleted # {}
    /\ ret.entity.id \notin deleted
    /\ ret.entity.id \in DOMAIN rows

\* C6: the entity a create returns and stores has created_at equal to
\* updated_at.
C6_CreatedAtEqualsUpdatedAt ==
    ret.op = "create" =>
        /\ ret.entity.created_at = ret.entity.updated_at
        /\ rows[ret.entity.id] = ret.entity

C8_ByStatusInGetAllOrder ==
    [][IsCall("get_by_status") =>
         \A s \in InvestmentStatus :
            get_ideas_by_status(s) =>
                /\ ret'.kind = "list"
                /\ ListsExactly(ret'.list, {r \in Table : r.status = s})
                /\ \A ga \in OrderByCreatedAtDesc(Table) :
                     \A a, b \in DOMAIN ret'.list :
                        a < b => Pos(ga, ret'.list[a]) < Pos(ga, ret'.list[b])]_vars

\* C8 amended: get_by_status(S) returns exactly the stored rows of status S,
\* an empty list when there is none, sorted by created_at descending: rows
\* of different created_at come in the relative order in which get_all lists
\* them, rows of equal created_at in any order.
C8_ByStatusSortedByCreatedAt ==
    [][IsCall("get_by_status") =>
         \A s \in InvestmentStatus :
            get_ideas_by_status(s) =>
                /\ ret'.kind = "list"
                /\ rows' = rows
                /\ ListsExactly(ret'.list, {r \in Table : r.status = s})
                /\ SortedByCreatedAtDesc(ret'.list)
                /\ \A ga \in OrderByCreatedAtDesc(Table) :
                     \A a, b \in DOMAIN ret'.list :
                        (a < b /\ ret'.list[a].created_at # ret'.list[b].created_at)
                            => Pos(ga, ret'.list[a]) < Pos(ga, ret'.list[b])]_vars

\* get_by_status returned two of three stored rows, created at different times
C8_Witness ==
    /\ ret.op = "get_by_status" /\ Len(ret.list) = 2
    /\ Cardinality(Table) = 3
    /\ ret.list[1].created_at > ret.list[2].created_at
    /\ \A k \in DOMAIN ret.list : ret.list[k].status = "Watchlist"

C10_CreatedAtNotAfterUpdatedAt ==
    \A i \in DOMAIN rows : rows[i].created_at <= rows[i].updated_at

\* after a create, an update and a delete a row has created_at < updated_at
C10_Witness ==
    /\ nUpdates > 0 /\ deleted # {}
    /\ \E i \in DOMAIN rows : rows[i].created_at < rows[i].updated_at

\* C11: in every reachable state the status of every stored row is one of
\* Researching, Watchlist, Invested, Rejected, whatever creates and updates
\* (those that set the status or pass None for it included) came before.
C11_StatusIsEnumerated ==
    \A i \in DOMAIN rows : rows[i].status \in InvestmentStatus

\* an update set a status, a later update that passed None for a field was
\* turned down by the store, and the rows still carry their statuses
C11_Witness ==
    /\ ret.op = "update" /\ ret.kind = "raise"
    /\ \E i \in DOMAIN rows : rows[i].status = "Invested"
    /\ \E i \in DOMAIN rows : rows[i].status \in {"Researching", "Watchlist"}

\* C14: every create returns an entity with an id, with the values the
\* payload sets, and with the defaults for the fields it leaves out:
\* status Researching, description and notes empty, idea_date the day of a
\* clock reading taken during the call.
C14_CreateReturnsSuppliedAndDefaults ==
    [][IsCall("create") =>
         \A d \in CreateInputs :
            create_investment_idea(d) =>
                /\ ret'.kind = "entity"
                /\ ret'.entity.id \in Nat \ {0}
                /\ \A f \in DOMAIN d : d[f] # None => ret'.entity[f] = d[f]
                /\ "status" \notin DOMAIN d => ret'.entity.status = "Researching"
                /\ "description" \notin DOMAIN d => ret'.entity.description = ""
                /\ "notes" \notin DOMAIN d => ret'.entity.notes = ""
                /\ ("idea_date" \notin DOMAIN d \/ d["idea_date"] = None) =>
                        \E t \in now..now' : ret'.entity.idea_date = Today(t)]_vars

\* a create that set only the title came back with every default, its
\* idea_date the second day of the clock
C14_Witness ==
    /\ ret.op = "create" /\ ret.kind = "entity" /\ ret.entity.id = 2
    /\ ret.entity.title = "T1" /\ ret.entity.status = "Researching"
    /\ ret.entity.description = "" /\ ret.entity.notes = ""
    /\ ret.entity.idea_date = Today(MaxClock)

\* what was typed breaks a constraint of a field: a title over 200
\* characters, a description over 2000, notes over 5000, a status that is
\* none of the four, a date that does not exist
BreaksConstraint(d) ==
    \E f \in DOMAIN d :
        /\ d[f] # None
        /\ \/ f = "title" /\ CharLen(d[f]) > TitleMaxLength
           \/ f = "description" /\ CharLen(d[f]) > DescriptionMaxLength
           \/ f = "notes" /\ CharLen(d[f]) > NotesMaxLength
           \/ f = "status" /\ d[f] \notin InvestmentStatus
           \/ f = "idea_date" /\ ~IsDate(d[f])

\* C12: a create or an update whose input breaks a field constraint ends as
\* a validation failure and leaves the store as it was: no row added, none
\* changed, no id used up.
C12_InvalidInputLeavesStoreUnchanged ==
    [][/\ IsCall("create") =>
            \A d \in RawCreateInputs :
                (BreaksConstraint(d) /\ create_from_input(d)) =>
                    /\ ret'.kind = "invalid"
                    /\ rows' = rows /\ nextId' = nextId
       /\ IsCall("update") =>
            \A d \in RawUpdateInputs : \A i \in Ids :
                (BreaksConstraint(d) /\ update_from_input(i, d)) =>
                    /\ ret'.kind = "invalid"
                    /\ rows' = rows /\ nextId' = nextId]_vars

\* an input was turned down while the store held a title of exactly 200
\* characters and an updated row, and no stored text is over its length
C12_Witness ==
    /\ ret.kind = "invalid"
    /\ nUpdates > 0
    /\ \E i \in DOMAIN rows : rows[i].title = "T200"
    /\ \A i \in DOMAIN rows : CharLen(rows[i].notes) <= NotesMaxLength

\* C15: a get_by_id on an id that a create returned, with no update and no
\* delete of that id since, returns an entity equal in every field (id and
\* both timestamps included) to the entity the create returned; texts of
\* exactly 200, 2000 and 5000 characters come back as they went in.
C15_GetByIdReturnsWhatCreateReturned ==
    [][IsCall("get_by_id") =>
         \A i \in Ids :
            (get_investment_idea_by_id(i) /\ i \in DOMAIN fresh) =>
                /\ ret'.kind = "entity"
                /\ ret'.entity = fresh[i]]_vars

\* a get_by_id returned the untouched idea with the texts of maximal length,
\* after an update and a delete of another id
C15_Witness ==
    /\ ret.op = "get_by_id" /\ ret.kind = "entity"
    /\ ret.entity.id \in DOMAIN fresh
    /\ CharLen(ret.entity.title) = TitleMaxLength
    /\ CharLen(ret.entity.description) = DescriptionMaxLength
    /\ CharLen(ret.entity.notes) = NotesMaxLength
    /\ nUpdates > 0 /\ deleted # {}

\* C13: when the update calls of two callers on one id overlap (the one that
\* commits last loaded the row before the other committed), the later commit
\* is not turned down, and after it the row still exists with its id and
\* created_at, and every field both payloads set holds the value of the
\* payload that committed last.
C13_LastWriterWins ==
    [][\A c \in Callers :
         (sess[c].pc = "loaded" /\ sess'[c].pc # "loaded") =>
            \A b \in Callers \ {c} :
               ( /\ sess[b].pc = "done"
                 /\ sess[b].id = sess[c].id
                 /\ sess[b].seq > sess[c].read ) =>
                    /\ sess'[c].pc = "done"
                    /\ sess[c].id \in DOMAIN rows'
                    /\ rows'[sess[c].id].id = sess[c].id
                    /\ rows'[sess[c].id].created_at = sess[c].idea.created_at
                    /\ \A f \in DOMAIN sess[b].d \cap DOMAIN sess[c].d :
                          rows'[sess[c].id][f] = sess[c].d[f]]_vars

\* C16: after the filter handler ran, the cards on the page are exactly the
\* ideas the service returned for the selected filter, in that order, each
\* once, and the only count label is the one of that list: the cards and the
\* label drawn when the page was loaded are gone.
C16_FilterShowsExactlyTheServiceResult ==
    [][\A f \in FilterOptions :
         apply_filter(f) =>
            /\ ui'.filter = f
            /\ ret'.op = IF f = "All" THEN "get_all" ELSE "get_by_status"
            /\ ShownCards(ui') = ret'.list
            /\ ShownLabels(ui') = {Len(ret'.list)}
            /\ ui'.page_cards = <<>> /\ ui'.page_label = -1
            /\ \A k \in DOMAIN ShownCards(ui') :
                  f = "All" \/ ShownCards(ui')[k].status = f
            /\ \A k, m \in DOMAIN ShownCards(ui') :
                  k # m => ShownCards(ui')[k].id # ShownCards(ui')[m].id]_vars

\* C17: with a dialog open on an idea that another client has deleted since,
\* Save Changes and Delete change nothing in the store and create no row:
\* the update returns None, the delete returns False, and the client is
\* notified of a failure.
C17_ConfirmOnDeletedIdeaChangesNothing ==
    [][(ui.dialog # "none" /\ ui.dialog_idea.id \notin DOMAIN rows) =>
         /\ \A d \in EditInputs(ui.dialog_idea) :
               save_changes(d) =>
                  /\ rows' = rows /\ nextId' = nextId
                  /\ ui'.notice.type = "negative"
                  /\ ui'.dialog = "edit"
                  /\ IF d["title"] = ""
                     THEN ret' = ret
                     ELSE /\ ret'.op = "update" /\ ret'.kind = "none"
                          /\ ui'.notice.text = "Failed to update investment idea"
         /\ confirm_delete =>
               /\ rows' = rows /\ nextId' = nextId
               /\ ret'.op = "delete" /\ ret'.kind = "false"
               /\ ui'.dialog = "delete"
               /\ ui'.notice = Notify("negative", "Failed to delete investment idea")]_vars

\* Save Changes was clicked in an edit dialog whose idea another client had
\* deleted: the update found no row, the failure was notified, the dialog is
\* still open and the other idea is still stored
C17_Witness ==
    /\ ui.event = "save_changes" /\ ui.dialog = "edit"
    /\ ui.dialog_idea.id \in deleted
    /\ ret.op = "update" /\ ret.kind = "none"
    /\ ui.notice = Notify("negative", "Failed to update investment idea")
    /\ DOMAIN rows # {}

====
